---- MODULE Spec2Model ----
(***************************************************************************)
(* CelestialTSP (src/src/celestsp/main.py): one planning run.              *)
(*                                                                         *)
(* run() reads the body list, selects the start body (override name or     *)
(* soonest-to-set search), builds the complete distance graph over the     *)
(* bodies' (Altitude, Azimuth), plans a greedy tour from the start, prints *)
(* the order and saves the plot.                                           *)
(*                                                                         *)
(* Python lists, DataFrame rows and graph nodes are 0-based: they are      *)
(* functions on 0..n-1.  The lines of the input file are a sequence.       *)
(*                                                                         *)
(* Hours are exact rationals [num, den]; np.inf is 1/0.  Distances are     *)
(* kept squared (the square root is strictly increasing, so every          *)
(* comparison and equality of weights is preserved).                       *)
(***************************************************************************)
EXTENDS Integers, Sequences, FiniteSets, TLC

\* Largest number of lines in the input file.
MaxN == 3

\* np.linspace(0, 24, 1000): 1000 samples over a 24 hour window.
NumSamples == 1000
WindowHours == 24

\* Names of the file's lines, by line number (names are distinct in a file).
Names == <<"M31", "M42", "M45", "M13", "M57", "M81">>

\* A name that is on no line of the file.
AbsentName == "Sirius"

\* Altitudes (degrees) the transform may return at the observation instant.
Altitudes == {-1, 0, 1}

\* What the coordinate transform returns for a resolved (RA, Dec), besides the
\* current altitude: the azimuth, and the instants (in sample intervals after
\* the observation instant) at which the altitude is not the default positive
\* one, with the altitude there.  An instant >= NumSamples is after the window.
Tracks ==
    { [az |-> 0, dips |-> {<<1000, -1>>}],
      [az |-> 1, dips |-> {<<1, 0>>, <<2, 1>>, <<999, -1>>}],
      [az |-> 3, dips |-> {<<999, -1>>, <<1000, -1>>}] }

\* The resolved coordinates of a body, as the transform sees them.
Coords == { [alt |-> a, az |-> t.az, dips |-> t.dips] : a \in Altitudes, t \in Tracks }

\* A coordinate returned by from_name() for a line that fails to resolve is
\* never used; NoCoord fills the field.
NoCoord == [alt |-> 0, az |-> 0, dips |-> {}]

LineChoices ==
    { [resolves |-> TRUE, Coord |-> c] : c \in Coords }
        \cup { [resolves |-> FALSE, Coord |-> NoCoord] }

\* The files of exactly m lines.
FilesOfLen(m) ==
    { [exists |-> TRUE,
       lines |-> [k \in 1..m |-> [Name |-> Names[k],
                                   resolves |-> ch[k].resolves,
                                   Coord |-> ch[k].Coord]]]
      : ch \in [1..m -> LineChoices] }

\* The input files: a missing file, or a file of up to MaxN lines.
Files ==
    { [exists |-> FALSE, lines |-> <<>>] }
        \cup UNION { FilesOfLen(m) : m \in 0..MaxN }

\* The --first_body argument: "" (none), the name of a line, or another name.
FirstBodyArgs == {""} \cup { Names[k] : k \in 1..MaxN } \cup {AbsentName}

VARIABLES
    file,         \* the input file (input_file_path's content)
    first_body,   \* args.first_body
    pc,           \* position in run()
    df,           \* self.df: rows 0..n-1
    first_index,  \* run()'s first_index
    sampled,      \* per row: did find_first_body transform the time grid
    coordinates,  \* make_graph's argument: row -> (Altitude, Azimuth)
    dist_matrix,  \* make_graph's argument: distance_matrix(coordinates, coordinates)
    graph,        \* the nx.Graph built by make_graph
    tsp_path,     \* the list greedy_tsp returned
    df_ordered,   \* self.df.iloc[tsp_path].reset_index(drop=True)
    stdout,       \* what was printed, in order
    exit_code,    \* sys.exit's argument, -1 while none
    plotted,      \* save_spherical_image was called
    response,     \* what requests.get("http://ip-api.com/json/") does
    location      \* the tuple get_location returned, <<>> while none

vars == <<file, first_body, pc, df, first_index, sampled, coordinates,
          dist_matrix, graph, tsp_path, df_ordered, stdout, exit_code, plotted,
          response, location>>

----
\* Python values.

\* len() of a list held as a function on 0..n-1.
len(l) == Cardinality(DOMAIN l)

\* The empty list / empty DataFrame.
Empty == <<>>

\* list.append
append(l, x) == [i \in 0..len(l) |-> IF i < len(l) THEN l[i] ELSE x]

\* np.inf, and the hours k * WindowHours / (NumSamples - 1).
Inf == [num |-> 1, den |-> 0]

\* Variant of lt: a <= b, so that a later row at the same time wins.
lt_or_equal(a, b) == a.num * b.den <= b.num * a.den

\* a < b on hours (floats): cross-multiplication; nothing is above np.inf.
lt(a, b) == a.num * b.den < b.num * a.den

\* print(): one more line on stdout.
print(out, msg, arg) == Append(out, [msg |-> msg, arg |-> arg])

----
\* The coordinate transform (SkyCoord.transform_to, external): the altitude
\* and azimuth of coordinates c at the instant t sample intervals after the
\* observation instant.  It is deterministic: t = 0 is the observation instant.
transform_alt(c, t) ==
    IF t = 0 THEN c.alt
    ELSE IF \E d \in c.dips : d[1] = t
         THEN (CHOOSE d \in c.dips : d[1] = t)[2]
         ELSE 1

transform_az(c) == c.az

\* Variant of linspace: the end point 24 is left out of the grid.
linspace_no_endpoint(k) == [num |-> k * WindowHours, den |-> NumSamples]

\* np.linspace(0, WindowHours, NumSamples)[k], in hours.
linspace(k) == [num |-> k * WindowHours, den |-> NumSamples - 1]

\* Variant of grid: one sample more, past the end of the window.
grid_past_window(c) == { k \in {0} \cup { d[1] : d \in c.dips } : k <= NumSamples }

\* The samples of the grid 0..NumSamples-1 whose altitude may differ from the
\* default (positive) one; future_alts is positive at every other sample.
grid(c) == { k \in {0} \cup { d[1] : d \in c.dips } : k < NumSamples }

\* Variant of set_indices: only the samples strictly below the horizon.
set_indices_negative(c) == { k \in grid(c) : transform_alt(c, k) < 0 }

\* np.where(future_alts <= 0)[0]: the samples with altitude <= 0.
set_indices(c) == { k \in grid(c) : transform_alt(c, k) <= 0 }

\* set_indices[0]: np.where lists the indices in increasing order.
first_of(S) == CHOOSE k \in S : \A j \in S : k <= j

\* Variant of is_observable: a body on the horizon counts as observable.
is_observable_on_horizon(alt) == alt >= 0

\* is_observable(altaz, min_altitude = 0)
is_observable(alt) == alt > 0

\* Variant of above_horizon: a body on the horizon is sampled too.
above_or_on_horizon(alt) == alt >= 0

\* if alt > 0: the body is above the horizon now, its time grid is sampled.
above_horizon(alt) == alt > 0

\* The locals of find_first_body after the first k rows of d.
RECURSIVE find_first_body_loop(_, _)
find_first_body_loop(d, k) ==
    IF k = 0
    THEN [altitudes |-> Empty, azimuths |-> Empty, times_to_set |-> Empty,
          observables |-> Empty, sampled |-> Empty,
          shortest_time |-> Inf, first_index |-> -1]
    ELSE
      LET acc == find_first_body_loop(d, k - 1)
          i == k - 1
          sky_coord == d[i].Coord
          alt == transform_alt(sky_coord, 0)
          az == transform_az(sky_coord)
          sets == above_horizon(alt) /\ set_indices(sky_coord) # {}
          t_set == IF sets THEN linspace(first_of(set_indices(sky_coord))) ELSE Inf
          better == sets /\ lt(t_set, acc.shortest_time)
      IN  [altitudes |-> append(acc.altitudes, alt),
           azimuths |-> append(acc.azimuths, az),
           times_to_set |-> append(acc.times_to_set, t_set),
           observables |-> append(acc.observables, is_observable(alt)),
           sampled |-> append(acc.sampled, above_horizon(alt)),
           shortest_time |-> IF better THEN t_set ELSE acc.shortest_time,
           first_index |-> IF better THEN i ELSE acc.first_index]

\* Variant of find_first_body: row 0 instead of -1 when no body sets.
find_first_body_default_zero(d) ==
    LET r == find_first_body_loop(d, len(d))
    IN  [r EXCEPT !.first_index = IF @ = -1 THEN 0 ELSE @]

\* find_first_body(): the locals after the loop over all rows.
find_first_body(d) == find_first_body_loop(d, len(d))

\* self.df with the four columns find_first_body adds.
with_columns(d, r) ==
    [i \in DOMAIN d |->
        [Name |-> d[i].Name, Coord |-> d[i].Coord,
         Altitude |-> r.altitudes[i], Azimuth |-> r.azimuths[i],
         TimeToSet |-> r.times_to_set[i], Observable |-> r.observables[i]]]

\* "Altitude" in self.df.columns
has_columns(d) == \A i \in DOMAIN d : "Altitude" \in DOMAIN d[i]

\* Variant of read_records: the first line that fails to resolve ends the
\* loop over the file.
RECURSIVE read_records_until_failure(_, _)
read_records_until_failure(lines, k) ==
    IF k = 0 THEN Empty
    ELSE LET records == read_records_until_failure(lines, k - 1)
         IN  IF \A j \in 1..k : lines[j].resolves
             THEN append(records, [Name |-> lines[k].Name, Coord |-> lines[k].Coord])
             ELSE records

----
\* read_celestial_names: the records after the first k lines.
RECURSIVE read_records(_, _)
read_records(lines, k) ==
    IF k = 0 THEN Empty
    ELSE LET records == read_records(lines, k - 1)
         IN  IF lines[k].resolves
             THEN append(records, [Name |-> lines[k].Name, Coord |-> lines[k].Coord])
             ELSE records

\* The "Error looking up" lines printed for the first k lines.
RECURSIVE read_errors(_, _, _)
read_errors(out, lines, k) ==
    IF k = 0 THEN out
    ELSE LET prev == read_errors(out, lines, k - 1)
         IN  IF lines[k].resolves THEN prev
             ELSE print(prev, "Error looking up", lines[k].Name)

\* self.df.index[self.df["Name"] == first_body]
matching_indices(d, name) == { i \in DOMAIN d : d[i].Name = name }

\* Variant of override_index: the first row of the frame.
override_index_first_row(d, name) == first_of(DOMAIN d)

\* int(matching_indices[0]): the first matching row.
override_index(d, name) == first_of(matching_indices(d, name))

----
\* networkx.Graph: nodes (node -> attributes) and the symmetric adjacency
\* adj (node -> neighbour -> weight).

\* nx.Graph()
Graph == [nodes |-> Empty, adj |-> Empty]

\* G.add_node(n, pos=pos)
add_node(G, n, pos) ==
    [nodes |-> (n :> pos) @@ G.nodes,
     adj |-> IF n \in DOMAIN G.adj THEN G.adj ELSE (n :> Empty) @@ G.adj]

\* G.add_edge(u, v, weight=w): stored under both ends.
add_edge(G, u, v, w) ==
    [nodes |-> G.nodes,
     adj |-> [x \in DOMAIN G.adj |->
                IF x = u THEN (v :> w) @@ G.adj[u]
                ELSE IF x = v THEN (u :> w) @@ G.adj[v]
                ELSE G.adj[x]]]

\* for i in range(n): G.add_node(i, pos=...), after k iterations.
RECURSIVE add_nodes(_, _, _)
add_nodes(G, coords, k) ==
    IF k = 0 THEN G
    ELSE add_node(add_nodes(G, coords, k - 1), k - 1, coords[k - 1])

\* for j in range(i + 1, n): G.add_edge(i, j, ...), from j on.
RECURSIVE add_edges_from(_, _, _, _, _)
add_edges_from(G, dmatrix, n, i, j) ==
    IF j >= n THEN G
    ELSE add_edges_from(add_edge(G, i, j, dmatrix[i][j]), dmatrix, n, i, j + 1)

\* for i in range(n): the inner loop, from i on.
RECURSIVE add_edges(_, _, _, _)
add_edges(G, dmatrix, n, i) ==
    IF i >= n THEN G
    ELSE add_edges(add_edges_from(G, dmatrix, n, i, i + 1), dmatrix, n, i + 1)

\* Variant of make_graph: the weights are read from the lower triangle.
make_graph_lower(coords, dmatrix) ==
    LET n == len(coords)
        lower == [i \in DOMAIN dmatrix |-> [j \in DOMAIN dmatrix |-> dmatrix[j][i]]]
    IN  add_edges(add_nodes(Graph, coords, n), lower, n, 0)

\* make_graph(coordinates, dist_matrix)
make_graph(coords, dmatrix) ==
    LET n == len(coords)
    IN  add_edges(add_nodes(Graph, coords, n), dmatrix, n, 0)

\* self.df[["Altitude", "Azimuth"]].to_numpy()
to_coordinates(d) == [i \in DOMAIN d |-> <<d[i].Altitude, d[i].Azimuth>>]

\* scipy's distance_matrix(x, x): Euclidean distances, here squared.
distance_matrix(x) ==
    [i \in DOMAIN x |-> [j \in DOMAIN x |->
        (x[i][1] - x[j][1]) * (x[i][1] - x[j][1])
            + (x[i][2] - x[j][2]) * (x[i][2] - x[j][2])]]

----
\* networkx.approximation.greedy_tsp(G, source), called by run().

\* Its completeness check: every node is adjacent to all the others.
is_complete(G) ==
    \A n \in DOMAIN G.adj :
        Cardinality(DOMAIN G.adj[n] \ {n}) = len(G.adj) - 1

\* Variant of nearest: the lowest unvisited node, whatever the weights.
lowest_unvisited(G, nodeset, next_node) == first_of(nodeset)

\* Variant of nearest: among the nodes at the minimum, the highest.
nearest_highest(G, nodeset, next_node) ==
    CHOOSE n \in nodeset :
        \A m \in nodeset :
            \/ G.adj[next_node][n] < G.adj[next_node][m]
            \/ G.adj[next_node][n] = G.adj[next_node][m] /\ n >= m

\* min(nodeset, key=weight from next_node): the first minimum met when the
\* set is iterated, and a set of small ints iterates in increasing order.
nearest(G, nodeset, next_node) ==
    CHOOSE n \in nodeset :
        \A m \in nodeset :
            \/ G.adj[next_node][n] < G.adj[next_node][m]
            \/ G.adj[next_node][n] = G.adj[next_node][m] /\ n <= m

\* while nodeset: next_node = min(...); cycle.append; nodeset.remove
RECURSIVE greedy_loop(_, _, _, _)
greedy_loop(G, nodeset, cycle, next_node) ==
    IF nodeset = {} THEN cycle
    ELSE LET n == nearest(G, nodeset, next_node)
         IN  greedy_loop(G, nodeset \ {n}, append(cycle, n), n)

\* Variant of greedy_tsp: the path is not closed into a cycle.
greedy_tsp_open(G, source) ==
    greedy_loop(G, DOMAIN G.nodes \ {source}, append(Empty, source), source)

\* greedy_tsp: the cycle, closed by its first node.
greedy_tsp(G, source) ==
    LET cycle == greedy_loop(G, DOMAIN G.nodes \ {source}, append(Empty, source), source)
    IN  append(cycle, cycle[0])

\* df.iloc[tsp_path].reset_index(drop=True)
iloc(d, path) == [k \in DOMAIN path |-> d[path[k]]]

\* show_results: the lines printed for the first k rows of d.
RECURSIVE show_rows(_, _, _)
show_rows(out, d, k) ==
    IF k = 0 THEN out
    ELSE LET prev == show_rows(out, d, k - 1)
             i == k - 1
         IN  IF i + 1 = len(d) THEN prev
             ELSE print(prev, "Name:", d[i].Name)

\* The lines printed when no row is skipped.
RECURSIVE show_all_rows(_, _, _)
show_all_rows(out, d, k) ==
    IF k = 0 THEN out
    ELSE print(show_all_rows(out, d, k - 1), "Name:", d[k - 1].Name)

\* Variant of show_results: the last row is printed too.
show_results_all(out, d) ==
    show_all_rows(print(out, "Optimal Order of Celestial Bodies:", ""), d, len(d))

\* show_results(df)
show_results(out, d) ==
    show_rows(print(out, "Optimal Order of Celestial Bodies:", ""), d, len(d))

----
\* get_location.

\* Python's None and a Python float, as members of the returned tuple.
None == [none |-> TRUE, float |-> 0]

Float(v) == [none |-> FALSE, float |-> v]

\* A JSON value of the reply: null (or a missing key, which data.get()
\* turns into None), a number, or a string.
Null == [type |-> "null", v |-> 0, s |-> ""]

Number(n) == [type |-> "number", v |-> n, s |-> ""]

String(t) == [type |-> "string", v |-> 0, s |-> t]

\* The strings float() can read as a number, with that number.
Numerals == [t \in {"35", "-120"} |-> IF t = "35" THEN 35 ELSE -120]

\* The values of "lat" and "lon" in the reply.
JsonValues == {Null, Number(35), Number(-120), String("35"), String("abc")}

\* The values of "status" in the reply.
Statuses == {String("success"), String("fail"), Null}

\* No request made.
NoResponse == [kind |-> "none", status |-> Null, lat |-> Null, lon |-> Null]

\* requests.get raises; response.json() raises; the JSON document is not
\* an object; or it is an object with these three keys.
Responses ==
    { [kind |-> k, status |-> Null, lat |-> Null, lon |-> Null] :
          k \in {"ConnectionError", "JSONDecodeError", "list"} }
    \cup { [kind |-> "dict", status |-> st, lat |-> a, lon |-> b] :
               st \in Statuses, a \in JsonValues, b \in JsonValues }

\* float(x): TypeError for None, ValueError for a string that is no number.
float(x) ==
    IF x.type = "number" THEN [raises |-> FALSE, value |-> Float(x.v)]
    ELSE IF x.type = "string" /\ x.s \in DOMAIN Numerals
         THEN [raises |-> FALSE, value |-> Float(Numerals[x.s])]
         ELSE [raises |-> TRUE, value |-> None]

\* The body of the try block: what it returns or that it raises, and what
\* it prints.
get_location_try(r, out) ==
    IF r.kind \in {"ConnectionError", "JSONDecodeError", "list"}
    THEN [raises |-> TRUE, value |-> <<>>, out |-> out]
    ELSE IF r.status = String("success")
         THEN IF float(r.lat).raises \/ float(r.lon).raises
              THEN [raises |-> TRUE, value |-> <<>>, out |-> out]
              ELSE [raises |-> FALSE,
                    value |-> <<float(r.lat).value, float(r.lon).value>>,
                    out |-> out]
         ELSE [raises |-> FALSE, value |-> <<None, None>>,
               out |-> print(out, "Error: Unable to get location data", "")]

\* Variant of get_location: only a failed request is caught.
get_location_catch_request_only(r, out) ==
    LET t == get_location_try(r, out)
    IN  IF t.raises /\ r.kind = "ConnectionError"
        THEN [raises |-> FALSE, value |-> <<None, None>>, out |-> t.out]
        ELSE t

\* get_location(): except Exception: return None, None
get_location(r, out) ==
    LET t == get_location_try(r, out)
    IN  IF t.raises
        THEN [raises |-> FALSE, value |-> <<None, None>>, out |-> t.out]
        ELSE t

----
\* run()'s first_index before line 46 or 48 assigns it.
unbound == -2

Init ==
    /\ file \in Files
    /\ first_body \in FirstBodyArgs
    /\ pc = "read"
    /\ df = Empty
    /\ first_index = unbound
    /\ sampled = Empty
    /\ coordinates = Empty
    /\ dist_matrix = Empty
    /\ graph = Graph
    /\ tsp_path = Empty
    /\ df_ordered = Empty
    /\ stdout = <<>>
    /\ exit_code = -1
    /\ plotted = FALSE
    /\ response = NoResponse
    /\ location = <<>>

\* sys.exit(1) after printing msg.
Exit(out, msg, arg) ==
    /\ stdout' = print(out, msg, arg)
    /\ exit_code' = 1
    /\ pc' = "exit"

\* Variant of ReadCelestialNames: an empty frame is returned like any other.
ReadCelestialNamesLenient ==
    /\ pc = "read"
    /\ IF ~file.exists
       THEN /\ Exit(stdout, "Input file does not exist.", "")
            /\ UNCHANGED df
       ELSE /\ df' = read_records(file.lines, Len(file.lines))
            /\ stdout' = read_errors(stdout, file.lines, Len(file.lines))
            /\ pc' = "select"
            /\ UNCHANGED exit_code
    /\ UNCHANGED <<response, location, file, first_body, first_index, sampled,
                   coordinates, dist_matrix, graph, tsp_path, df_ordered,
                   plotted>>

\* Step 1: self.df = self.read_celestial_names(input_file_path)
ReadCelestialNames ==
    /\ pc = "read"
    /\ IF ~file.exists
       THEN /\ Exit(stdout, "Input file does not exist.", "")
            /\ UNCHANGED df
       ELSE LET records == read_records(file.lines, Len(file.lines))
                out == read_errors(stdout, file.lines, Len(file.lines))
            IN  IF records = Empty
                THEN /\ Exit(out, "Input file is empty or contains no valid celestial names.", "")
                     /\ UNCHANGED df
                ELSE /\ df' = records
                     /\ stdout' = out
                     /\ pc' = "select"
                     /\ UNCHANGED exit_code
    /\ UNCHANGED <<response, location, file, first_body, first_index, sampled,
                   coordinates, dist_matrix, graph, tsp_path, df_ordered,
                   plotted>>

\* Variant of SelectFirstBody: a first_body that names no row falls back to
\* the search instead of ending the run.
SelectFirstBodyLenient ==
    /\ pc = "select"
    /\ IF first_body # "" /\ matching_indices(df, first_body) # {}
       THEN /\ first_index' = override_index(df, first_body)
            /\ UNCHANGED <<df, sampled>>
       ELSE LET r == find_first_body(df)
            IN  /\ df' = with_columns(df, r)
                /\ sampled' = r.sampled
                /\ first_index' = r.first_index
    /\ pc' = "build"
    /\ UNCHANGED <<response, location, file, first_body, coordinates,
                   dist_matrix, graph, tsp_path, df_ordered, plotted, stdout,
                   exit_code>>

\* Step 2: the start index, from first_body or from find_first_body().
SelectFirstBody ==
    /\ pc = "select"
    /\ IF first_body # ""
       THEN IF matching_indices(df, first_body) = {}
            THEN /\ Exit(stdout, "is not in the input file.", first_body)
                 /\ UNCHANGED <<df, first_index, sampled>>
            ELSE /\ first_index' = override_index(df, first_body)
                 /\ pc' = "build"
                 /\ UNCHANGED <<df, sampled, stdout, exit_code>>
       ELSE LET r == find_first_body(df)
            IN  /\ df' = with_columns(df, r)
                /\ sampled' = r.sampled
                /\ first_index' = r.first_index
                /\ pc' = "build"
                /\ UNCHANGED <<stdout, exit_code>>
    /\ UNCHANGED <<response, location, file, first_body, coordinates,
                   dist_matrix, graph, tsp_path, df_ordered, plotted>>

\* Variant of BuildGraph: the planner is reached whatever first_index is.
BuildGraphUnguarded ==
    /\ pc = "build"
    /\ LET out == print(print(stdout, "Location:", ""), "Observation Date/Time:", "")
       IN  IF ~has_columns(df)
           THEN /\ stdout' = out
                /\ pc' = "KeyError"
                /\ UNCHANGED <<coordinates, dist_matrix, graph>>
           ELSE /\ coordinates' = to_coordinates(df)
                /\ dist_matrix' = distance_matrix(to_coordinates(df))
                /\ stdout' = out
                /\ graph' = make_graph(to_coordinates(df),
                                       distance_matrix(to_coordinates(df)))
                /\ pc' = "plan"
    /\ UNCHANGED <<response, location, file, first_body, df, first_index,
                   sampled, tsp_path, df_ordered, exit_code, plotted>>

\* Step 3: the prints, the coordinates and the graph (lines 50-60, 67-70).
\* self.df[["Altitude", "Azimuth"]] raises KeyError without the columns.
BuildGraph ==
    /\ pc = "build"
    /\ LET out == print(print(stdout, "Location:", ""), "Observation Date/Time:", "")
       IN  IF ~has_columns(df)
           THEN /\ stdout' = out
                /\ pc' = "KeyError"
                /\ UNCHANGED <<coordinates, dist_matrix, graph>>
           ELSE /\ coordinates' = to_coordinates(df)
                /\ dist_matrix' = distance_matrix(to_coordinates(df))
                /\ IF first_index # -1
                   THEN /\ stdout' = out
                        /\ graph' = make_graph(to_coordinates(df),
                                               distance_matrix(to_coordinates(df)))
                        /\ pc' = "plan"
                   ELSE /\ stdout' = print(out, "Could not find the celestial body closest to the west (270 azimuth).", "")
                        /\ pc' = "done"
                        /\ UNCHANGED graph
    /\ UNCHANGED <<response, location, file, first_body, df, first_index,
                   sampled, tsp_path, df_ordered, exit_code, plotted>>

\* Lines 61-62: the tour and the reordered frame.
PlanTour ==
    /\ pc = "plan"
    /\ IF is_complete(graph)
       THEN /\ tsp_path' = greedy_tsp(graph, first_index)
            /\ df_ordered' = iloc(df, greedy_tsp(graph, first_index))
            /\ pc' = "show"
       ELSE /\ pc' = "NetworkXError"
            /\ UNCHANGED <<tsp_path, df_ordered>>
    /\ UNCHANGED <<response, location, file, first_body, df, first_index,
                   sampled, coordinates, dist_matrix, graph, stdout,
                   exit_code, plotted>>

\* Line 63: self.show_results(df_ordered)
ShowResults ==
    /\ pc = "show"
    /\ stdout' = show_results(stdout, df_ordered)
    /\ pc' = "plot"
    /\ UNCHANGED <<response, location, file, first_body, df, first_index,
                   sampled, coordinates, dist_matrix, graph, tsp_path,
                   df_ordered, exit_code, plotted>>

\* Lines 64-66: save_spherical_image; plt.savefig may fail, which is caught.
SaveSphericalImage ==
    /\ pc = "plot"
    /\ plotted' = TRUE
    /\ \E saved \in BOOLEAN :
          stdout' = print(stdout, IF saved THEN "Plot saved as" ELSE "Error saving plot:", "")
    /\ pc' = "done"
    /\ UNCHANGED <<response, location, file, first_body, df, first_index,
                   sampled, coordinates, dist_matrix, graph, tsp_path,
                   df_ordered, exit_code>>

Next ==
    \/ ReadCelestialNames
    \/ SelectFirstBody
    \/ BuildGraph
    \/ PlanTour
    \/ ShowResults
    \/ SaveSphericalImage

Spec == Init /\ [][Next]_vars

----
\* make_graph on its own: any n coordinates and any n x n matrix.

\* The entries of a distance matrix.
Weights == {1, 2}

\* n coordinates (the node positions).
CoordinatesOfLen(n) == [i \in 0..(n - 1) |-> <<i, 2 * i>>]

InitGraph ==
    /\ \E n \in 1..MaxN :
          /\ coordinates = CoordinatesOfLen(n)
          /\ dist_matrix \in [0..(n - 1) -> [0..(n - 1) -> Weights]]
    /\ pc = "make_graph"
    /\ graph = Graph
    /\ file = [exists |-> FALSE, lines |-> <<>>]
    /\ first_body = ""
    /\ df = Empty
    /\ first_index = unbound
    /\ sampled = Empty
    /\ tsp_path = Empty
    /\ df_ordered = Empty
    /\ stdout = <<>>
    /\ exit_code = -1
    /\ plotted = FALSE
    /\ response = NoResponse
    /\ location = <<>>

\* graph = make_graph(coordinates, dist_matrix)
MakeGraph ==
    /\ pc = "make_graph"
    /\ graph' = make_graph(coordinates, dist_matrix)
    /\ pc' = "made"
    /\ UNCHANGED <<response, location, file, first_body, df, first_index,
                   sampled, coordinates, dist_matrix, tsp_path, df_ordered,
                   stdout, exit_code, plotted>>

NextGraph == MakeGraph

SpecGraph == InitGraph /\ [][NextGraph]_vars

----
\* greedy_tsp on its own: any complete graph built by make_graph from a
\* symmetric matrix, and any source.

\* The weights of the edges.
TourWeights == {1, 2, 5}

\* The unordered pairs of 0..n-1, as <<i, j>> with i < j.
Pairs(n) == { p \in (0..(n - 1)) \X (0..(n - 1)) : p[1] < p[2] }

\* The symmetric matrix with zero diagonal whose upper triangle is w.
Symmetric(n, w) ==
    [i \in 0..(n - 1) |-> [j \in 0..(n - 1) |->
        IF i = j THEN 0 ELSE IF i < j THEN w[<<i, j>>] ELSE w[<<j, i>>]]]

InitTour ==
    /\ \E n \in 1..MaxN :
          /\ coordinates = CoordinatesOfLen(n)
          /\ \E w \in [Pairs(n) -> TourWeights] : dist_matrix = Symmetric(n, w)
          /\ first_index \in 0..(n - 1)
    /\ pc = "make_graph"
    /\ graph = Graph
    /\ file = [exists |-> FALSE, lines |-> <<>>]
    /\ first_body = ""
    /\ df = Empty
    /\ sampled = Empty
    /\ tsp_path = Empty
    /\ df_ordered = Empty
    /\ stdout = <<>>
    /\ exit_code = -1
    /\ plotted = FALSE
    /\ response = NoResponse
    /\ location = <<>>

\* tsp_path = nx.approximation.greedy_tsp(graph, source=first_index)
GreedyTsp ==
    /\ pc = "made"
    /\ is_complete(graph)
    /\ tsp_path' = greedy_tsp(graph, first_index)
    /\ pc' = "toured"
    /\ UNCHANGED <<response, location, file, first_body, df, first_index,
                   sampled, coordinates, dist_matrix, graph, df_ordered,
                   stdout, exit_code, plotted>>

NextTour ==
    \/ MakeGraph
    \/ GreedyTsp

SpecTour == InitTour /\ [][NextTour]_vars

----
\* show_results on its own: any frame of 1..MaxN rows.

\* The names of the rows of a frame.
FrameNames == {"A", "B", "C", "D"}

\* The frames of k rows.
FramesOfLen(k) == [0..(k - 1) -> { [Name |-> x] : x \in FrameNames }]

InitShow ==
    /\ df_ordered \in UNION { FramesOfLen(k) : k \in 1..MaxN }
    /\ pc = "show"
    /\ stdout = <<>>
    /\ file = [exists |-> FALSE, lines |-> <<>>]
    /\ first_body = ""
    /\ df = Empty
    /\ first_index = unbound
    /\ sampled = Empty
    /\ coordinates = Empty
    /\ dist_matrix = Empty
    /\ graph = Graph
    /\ tsp_path = Empty
    /\ exit_code = -1
    /\ plotted = FALSE
    /\ response = NoResponse
    /\ location = <<>>

NextShow == ShowResults

SpecShow == InitShow /\ [][NextShow]_vars

----
\* get_location on its own: any reply of the geolocation service.

InitLocation ==
    /\ response \in Responses
    /\ location = <<>>
    /\ pc = "get_location"
    /\ stdout = <<>>
    /\ file = [exists |-> FALSE, lines |-> <<>>]
    /\ first_body = ""
    /\ df = Empty
    /\ first_index = unbound
    /\ sampled = Empty
    /\ coordinates = Empty
    /\ dist_matrix = Empty
    /\ graph = Graph
    /\ tsp_path = Empty
    /\ df_ordered = Empty
    /\ exit_code = -1
    /\ plotted = FALSE

\* latitude, longitude = cls.get_location()
GetLocation ==
    /\ pc = "get_location"
    /\ LET r == get_location(response, stdout)
       IN  /\ pc' = IF r.raises THEN "Exception" ELSE "returned"
           /\ location' = r.value
           /\ stdout' = r.out
    /\ UNCHANGED <<response, file, first_body, df, first_index, sampled,
                   coordinates, dist_matrix, graph, tsp_path, df_ordered,
                   exit_code, plotted>>

NextLocation == GetLocation

SpecLocation == InitLocation /\ [][NextLocation]_vars

----
\* Properties of a run.

\* The start-selection step of run() has been taken on a non-empty frame.
Selected == df # Empty /\ pc \notin {"read", "select"}

\* A first_body was given and names a row of the frame.
ValidOverride == first_body # "" /\ \E i \in DOMAIN df : df[i].Name = first_body

\* A first_body was given and names no row of the frame.
InvalidOverride == first_body # "" /\ \A i \in DOMAIN df : df[i].Name # first_body

\* find_first_body has run (no first_body was given).
Searched == Selected /\ first_body = ""

\* greedy_tsp has returned.
Planned == pc \in {"show", "plot"} \/ (pc = "done" /\ plotted)

\* The report header is on stdout.
Reported == \E k \in DOMAIN stdout : stdout[k].msg = "Optimal Order of Celestial Bodies:"

\* Nothing of graph building, planning, reporting or plotting has happened.
NothingPlanned ==
    /\ graph = Graph
    /\ tsp_path = Empty
    /\ df_ordered = Empty
    /\ ~Reported
    /\ ~plotted

\* l lists every one of 0..n-1 exactly once and nothing else.
IsPermutation(l, n) ==
    /\ len(l) = n
    /\ \A v \in 0..(n - 1) : Cardinality({ k \in DOMAIN l : l[k] = v }) = 1

\* The samples 0..999 of the 24 hour grid at which the altitude of c is <= 0.
NonPositiveSamples(c) ==
    (IF c.alt <= 0 THEN {0} ELSE {})
        \cup { e[1] : e \in { d \in c.dips : d[1] \in 1..999 /\ d[2] <= 0 } }

\* The least element of a non-empty set of samples.
Least(S) == CHOOSE k \in S : \A j \in S : k <= j

\* t is the finite time of k sample intervals: 24 * k / 999 hours.
IsHoursOfSample(t, k) == t.den # 0 /\ t.num * 999 = 24 * k * t.den

\* Hours a are strictly before hours b (b may be infinite, a may not).
Sooner(a, b) == a.den # 0 /\ (b.den = 0 \/ a.num * b.den < b.num * a.den)

\* C1 as stated: the tour run() obtains from the planner is a permutation of
\* 0..n-1 of length exactly n whose first element is the start index.
C1_TourIsPermutation ==
    Planned => /\ IsPermutation(tsp_path, len(df))
               /\ tsp_path[0] = first_index

\* C1 amended: the tour run() obtains is a closed cycle of length n + 1: its
\* first n elements are a permutation of 0..n-1 that starts with the start
\* index, and its last element is the start index again.
C1_TourIsClosedCycle ==
    Planned =>
        /\ len(tsp_path) = len(df) + 1
        /\ IsPermutation([k \in 0..(len(df) - 1) |-> tsp_path[k]], len(df))
        /\ tsp_path[0] = first_index
        /\ tsp_path[len(df)] = first_index
        /\ first_index \in 0..(len(df) - 1)

C1_Witness == Planned /\ len(df) = 3 /\ first_index = 1

\* C2: with a first_body that names a row, the start index is that row's
\* index whatever the times-to-set are, and find_first_body is not run.
C2_OverridePinsStart ==
    (Selected /\ ValidOverride) =>
        /\ first_index \in DOMAIN df
        /\ df[first_index].Name = first_body
        /\ sampled = Empty
        /\ ~has_columns(df)

\* The override names row 2 while the search would have picked another row.
C2_Witness ==
    /\ Selected /\ ValidOverride
    /\ first_index = 2
    /\ find_first_body(df).first_index \in {0, 1}

\* C3 as stated: with a first_body that names a row, Altitude, Azimuth and
\* Observable are computed for every row before the graph is built, and the
\* run goes on to graph building.
C3_OverrideStillComputesObservation ==
    (Selected /\ ValidOverride) =>
        /\ \A i \in DOMAIN df :
              {"Altitude", "Azimuth", "Observable"} \subseteq DOMAIN df[i]
        /\ pc # "KeyError"

\* C4: a first_body that names no row ends the run at once: the error
\* names it, the exit code is 1, and nothing is estimated, built, planned,
\* reported or plotted.
C4_InvalidOverrideIsFatal ==
    (Selected /\ InvalidOverride) =>
        /\ pc = "exit"
        /\ exit_code = 1
        /\ stdout[Len(stdout)] = [msg |-> "is not in the input file.", arg |-> first_body]
        /\ sampled = Empty
        /\ ~has_columns(df)
        /\ coordinates = Empty
        /\ NothingPlanned

\* The name is that of a line that did not resolve, beside rows that did.
C4_Witness ==
    /\ Selected /\ InvalidOverride
    /\ pc = "exit"
    /\ len(df) = 2
    /\ first_body = Names[2]

\* C5: without first_body, when every body is below the horizon now or has
\* no sample <= 0 in the window, find_first_body returns -1 and run() plans
\* no tour and emits no report and no plot.
C5_NoCandidateNoTour ==
    (Searched /\ \A i \in DOMAIN df :
                    df[i].Coord.alt <= 0 \/ NonPositiveSamples(df[i].Coord) = {}) =>
        /\ first_index = -1
        /\ pc \in {"build", "done"}
        /\ NothingPlanned

\* One body is below the horizon, another is up and does not set in time.
C5_Witness ==
    /\ Searched /\ pc = "done" /\ first_index = -1
    /\ \E i, j \in DOMAIN df :
          /\ df[i].Coord.alt <= 0 /\ NonPositiveSamples(df[i].Coord) # {0}
          /\ df[j].Coord.alt > 0

\* C6: without first_body, when some body has a finite time-to-set,
\* find_first_body returns a row whose time-to-set is the minimum, and the
\* lowest such row.
C6_SoonestLowestIndex ==
    (Searched /\ \E i \in DOMAIN df : df[i].TimeToSet.den # 0) =>
        /\ first_index \in DOMAIN df
        /\ df[first_index].TimeToSet.den # 0
        /\ \A j \in DOMAIN df : ~Sooner(df[j].TimeToSet, df[first_index].TimeToSet)
        /\ \A j \in DOMAIN df :
              j < first_index => Sooner(df[first_index].TimeToSet, df[j].TimeToSet)

\* Rows 1 and 2 tie at the minimum and row 0 sets later.
C6_Witness ==
    /\ Searched /\ len(df) = 3 /\ first_index = 1
    /\ df[2].TimeToSet = df[1].TimeToSet
    /\ Sooner(df[1].TimeToSet, df[0].TimeToSet)
    /\ df[0].TimeToSet.den # 0

\* C7: a body whose current altitude is <= 0 gets an infinite time-to-set,
\* is never the start found by the search, and its grid is not sampled.
C7_BelowHorizonNeverStart ==
    Searched =>
        \A i \in DOMAIN df :
            df[i].Coord.alt <= 0 =>
                /\ df[i].TimeToSet = [num |-> 1, den |-> 0]
                /\ first_index # i
                /\ sampled[i] = FALSE

\* A body at altitude 0 now whose later samples do go <= 0, and no start.
C7_Witness ==
    /\ Searched /\ first_index = -1
    /\ \E i \in DOMAIN df :
          /\ df[i].Coord.alt = 0
          /\ \E k \in 1..999 : k \in NonPositiveSamples(df[i].Coord)

\* C8: a body above the horizon now is sampled, and its time-to-set is
\* 24 * k / 999 hours for the first sample k of the 1000 with altitude <= 0,
\* and infinite exactly when there is no such sample.
C8_FirstNonPositiveSample ==
    Searched =>
        \A i \in DOMAIN df :
            df[i].Coord.alt > 0 =>
                /\ sampled[i] = TRUE
                /\ IF NonPositiveSamples(df[i].Coord) = {}
                   THEN df[i].TimeToSet.den = 0
                   ELSE IsHoursOfSample(df[i].TimeToSet,
                                        Least(NonPositiveSamples(df[i].Coord)))

\* A body whose sample 1 is exactly 0, up again at 2 and down at 999, and a
\* body that only goes down after the window.
C8_Witness ==
    /\ Searched
    /\ \E i, j \in DOMAIN df :
          /\ df[i].Coord.alt > 0
          /\ NonPositiveSamples(df[i].Coord) = {1, 999}
          /\ df[i].TimeToSet = [num |-> 24, den |-> 999]
          /\ df[j].Coord.alt > 0
          /\ NonPositiveSamples(df[j].Coord) = {}
          /\ df[j].Coord.dips # {}

\* C9: after find_first_body every row has its Altitude, Azimuth, TimeToSet
\* and Observable; Observable is exactly Altitude > 0; TimeToSet is finite
\* only if the row is Observable and some sample of the window is <= 0.
C9_ObservationState ==
    Searched =>
        \A i \in DOMAIN df :
            /\ DOMAIN df[i] = {"Name", "Coord", "Altitude", "Azimuth", "TimeToSet", "Observable"}
            /\ df[i].Altitude = df[i].Coord.alt
            /\ df[i].Observable = (df[i].Altitude > 0)
            /\ df[i].TimeToSet.den # 0 =>
                  /\ df[i].Observable
                  /\ NonPositiveSamples(df[i].Coord) # {}

\* Three rows: one at altitude 0, one observable that sets, one that does not.
C9_Witness ==
    /\ Searched /\ len(df) = 3
    /\ \E i, j, k \in DOMAIN df :
          /\ df[i].Altitude = 0 /\ ~df[i].Observable
          /\ df[j].Observable /\ df[j].TimeToSet.den # 0
          /\ df[k].Observable /\ df[k].TimeToSet.den = 0

\* The file is missing, or none of its lines resolves to a body.
NoBodies == ~file.exists \/ \A k \in DOMAIN file.lines : ~file.lines[k].resolves

\* C13: when the file does not exist or no line of it resolves, the read
\* prints its error and exits with code 1; run() never gets to start
\* selection, graph building or planning with zero bodies.
C13_NoBodiesIsFatal ==
    /\ (pc # "read" /\ NoBodies) =>
          /\ pc = "exit"
          /\ exit_code = 1
          /\ stdout[Len(stdout)].msg =
                IF file.exists
                THEN "Input file is empty or contains no valid celestial names."
                ELSE "Input file does not exist."
          /\ df = Empty
          /\ first_index = unbound
          /\ sampled = Empty
          /\ coordinates = Empty
          /\ NothingPlanned
    /\ pc \in {"select", "build", "plan", "show", "plot", "done", "KeyError"} => df # Empty

\* A file of two lines, neither of which resolves.
C13_Witness ==
    /\ pc = "exit"
    /\ file.exists /\ Len(file.lines) = 2 /\ NoBodies
    /\ Len(stdout) = 3

\* The body lines of the report, in the order printed.
IsBodyLine(m) == m.msg = "Name:"

BodyLines == SelectSeq(stdout, IsBodyLine)

\* show_results has returned in run().
ReportedOrder == pc = "plot" \/ (pc = "done" /\ plotted)

\* C14: a run over n bodies that reaches the report prints exactly n body
\* lines: every body once, in tour order, the start body first.
C14_ReportListsEveryBodyOnce ==
    ReportedOrder =>
        /\ Len(BodyLines) = len(df)
        /\ \A k \in 1..Len(BodyLines) : BodyLines[k].arg = df[tsp_path[k - 1]].Name
        /\ BodyLines[1].arg = df[first_index].Name
        /\ \A i \in DOMAIN df :
              Cardinality({ k \in 1..Len(BodyLines) : BodyLines[k].arg = df[i].Name }) = 1

\* Three bodies, the last of them the start.
C14_Witness ==
    /\ ReportedOrder
    /\ len(df) = 3
    /\ first_index = 2
    /\ Len(BodyLines) = 3

\* C15 as stated: show_results on a frame of k >= 1 rows prints the header
\* and then a line for every one of the k rows, the last included.
C15_ShowResultsPrintsEveryRow ==
    pc = "plot" =>
        /\ stdout[1].msg = "Optimal Order of Celestial Bodies:"
        /\ Len(BodyLines) = len(df_ordered)
        /\ \A i \in DOMAIN df_ordered : BodyLines[i + 1].arg = df_ordered[i].Name

\* The altitude of a body at sample k of the grid, 0 <= k <= 999.
SampleAlt(c, k) ==
    IF k = 0 THEN c.alt
    ELSE LET D == { d \in c.dips : d[1] = k }
         IN  IF D = {} THEN 1 ELSE (CHOOSE d \in D : TRUE)[2]

\* The samples next to which the altitude of a body may change.
ChangePoints(c) ==
    { j \in UNION { {d[1] - 1, d[1]} : d \in c.dips } \cup {0} : j \in 0..998 }

\* The sampled altitude never rises from one sample to the next.
Monotone(c) == \A j \in ChangePoints(c) : SampleAlt(c, j + 1) <= SampleAlt(c, j)

\* The body is above the horizon now and its sampled altitude falls
\* monotonically to the horizon or below within the grid.
SetsMonotonically(c) == c.alt > 0 /\ Monotone(c) /\ NonPositiveSamples(c) # {}

\* C16: for a body whose sampled altitude decreases monotonically from
\* positive to non-positive across the grid, the reported time-to-set is the
\* time 24k/999 h of a sample k with altitude <= 0 whose predecessor k-1 has
\* altitude > 0.
C16_ReportedSampleBracketsCrossing ==
    Searched =>
        \A i \in DOMAIN df :
            SetsMonotonically(df[i].Coord) =>
                \E k \in NonPositiveSamples(df[i].Coord) :
                    /\ IsHoursOfSample(df[i].TimeToSet, k)
                    /\ SampleAlt(df[i].Coord, k) <= 0
                    /\ SampleAlt(df[i].Coord, k - 1) > 0

C16_Witness ==
    /\ Searched
    /\ \E i \in DOMAIN df :
          /\ SetsMonotonically(df[i].Coord)
          /\ df[i].TimeToSet = [num |-> 24 * 999, den |-> 999]

\* The lookup of a line of the file succeeds.
IsResolved(l) == l.resolves

IsUnresolved(l) == ~l.resolves

\* The messages of the lookups that failed, in the order printed.
IsLookupError(m) == m.msg = "Error looking up"

\* C18: read_celestial_names returns one record per line whose lookup
\* succeeds, in the order of the lines; each line whose lookup fails is
\* skipped with one message and neither ends the run nor drops another line.
C18_OneRecordPerResolvedLine ==
    (pc # "read" /\ file.exists) =>
        LET resolved == SelectSeq(file.lines, IsResolved)
            failed == SelectSeq(file.lines, IsUnresolved)
            errors == SelectSeq(stdout, IsLookupError)
        IN  /\ Len(errors) = Len(failed)
            /\ \A k \in DOMAIN failed : errors[k].arg = failed[k].Name
            /\ ~NoBodies =>
                  /\ len(df) = Len(resolved)
                  /\ \A i \in DOMAIN df :
                        /\ df[i].Name = resolved[i + 1].Name
                        /\ df[i].Coord = resolved[i + 1].Coord
                  /\ \A k \in DOMAIN stdout :
                        stdout[k].msg # "Input file is empty or contains no valid celestial names."

\* A file whose second line fails between two lines that resolve.
C18_Witness ==
    /\ pc = "select"
    /\ Len(file.lines) = 3
    /\ file.lines[1].resolves /\ ~file.lines[2].resolves /\ file.lines[3].resolves
    /\ len(df) = 2
    /\ df[1].Name = file.lines[3].Name
    /\ Len(stdout) = 1

\* The numbers a JSON value converts to: the number itself, or the number a
\* string spells.
NumbersOf(x) ==
    { n \in {35, -120} :
        \/ x = Number(n)
        \/ (n = 35 /\ x = String("35"))
        \/ (n = -120 /\ x = String("-120")) }

\* The reply is an object with status "success" whose lat and lon convert.
Located ==
    /\ response.kind = "dict"
    /\ response.status = String("success")
    /\ NumbersOf(response.lat) # {}
    /\ NumbersOf(response.lon) # {}

\* C19 as stated: get_location always returns: a pair of floats when the
\* reply has status "success", and (None, None) in every other case.
C19_SuccessGivesFloats ==
    pc # "get_location" =>
        /\ pc = "returned"
        /\ IF response.kind = "dict" /\ response.status = String("success")
           THEN Len(location) = 2 /\ ~location[1].none /\ ~location[2].none
           ELSE location = <<None, None>>

\* C19: get_location always returns: the pair of floats of lat and lon when
\* the reply has status "success" and both convert, and (None, None) in
\* every other case, a failed request, an unreadable reply, a non-success
\* status and a lat or lon that float() rejects included.
C19_FloatsOrNone ==
    pc # "get_location" =>
        /\ pc = "returned"
        /\ IF Located
           THEN \E a \in NumbersOf(response.lat), b \in NumbersOf(response.lon) :
                    location = <<Float(a), Float(b)>>
           ELSE location = <<None, None>>

\* The reply of test_get_location_success has been answered.
C19_Witness ==
    /\ pc = "returned"
    /\ response = [kind |-> "dict", status |-> String("success"),
                   lat |-> Number(35), lon |-> Number(-120)]
    /\ location = <<Float(35), Float(-120)>>

\* C20: whenever run() is about to call greedy_tsp, self.df has at least one
\* row, the graph has the nodes 0..n-1 and first_index is one of them; the
\* index a valid first_body assigns is a row index in 0..n-1 as well.
C20_PlannerSourceIsValid ==
    /\ pc = "plan" =>
          /\ df # Empty
          /\ DOMAIN graph.nodes = 0..(len(df) - 1)
          /\ first_index \in 0..(len(df) - 1)
    /\ (pc \in {"build", "KeyError"} /\ first_body # "") =>
          /\ df # Empty
          /\ first_index \in 0..(len(df) - 1)

\* The search picked the last of three rows and the planner is next.
C20_Witness ==
    /\ pc = "plan"
    /\ len(df) = 3
    /\ first_index = 2
    /\ \E i \in DOMAIN df : df[i].TimeToSet = Inf

\* C21: every finite time-to-set find_first_body produces is strictly more
\* than 0 and at most 24 hours: it is the time of a sample k in 1..999 of a
\* body that is above the horizon at sample 0, the observation instant.
C21_FiniteTimeToSetInWindow ==
    Searched =>
        \A i \in DOMAIN df :
            df[i].TimeToSet.den # 0 =>
                /\ df[i].TimeToSet.den > 0
                /\ df[i].TimeToSet.num > 0
                /\ df[i].TimeToSet.num <= 24 * df[i].TimeToSet.den
                /\ df[i].Altitude > 0
                /\ \E k \in 1..999 : IsHoursOfSample(df[i].TimeToSet, k)

\* One body sets at the first sample after the instant, another at the last
\* sample of the window, exactly 24 hours on.
C21_Witness ==
    /\ Searched
    /\ \E i, j \in DOMAIN df :
          /\ IsHoursOfSample(df[i].TimeToSet, 1)
          /\ IsHoursOfSample(df[j].TimeToSet, 999)
          /\ df[j].TimeToSet.num = 24 * df[j].TimeToSet.den

----
\* Properties of make_graph.

\* The edges of G as unordered pairs (a self-loop would be a singleton).
Edges(G) ==
    { {p[1], p[2]} :
        p \in { q \in (DOMAIN G.adj) \X (DOMAIN G.adj) : q[2] \in DOMAIN G.adj[q[1]] } }

\* C10: for n coordinates and an n x n matrix, make_graph returns the nodes
\* 0..n-1 and one edge for every unordered pair i # j, n(n-1)/2 in all, no
\* self-loop, and the weight of {i, j} read from either end is
\* dist_matrix[min(i, j)][max(i, j)]; one node and no edge for n = 1.
C10_MakeGraphComplete ==
    pc = "made" =>
        LET n == len(coordinates)
        IN  /\ DOMAIN graph.nodes = 0..(n - 1)
            /\ DOMAIN graph.adj = 0..(n - 1)
            /\ \A i \in 0..(n - 1) : DOMAIN graph.adj[i] = (0..(n - 1)) \ {i}
            /\ 2 * Cardinality(Edges(graph)) = n * (n - 1)
            /\ \A e \in Edges(graph) : Cardinality(e) = 2
            /\ \A i, j \in 0..(n - 1) :
                  i < j => /\ graph.adj[i][j] = dist_matrix[i][j]
                           /\ graph.adj[j][i] = dist_matrix[i][j]
            /\ n = 1 => Edges(graph) = {}

\* Three nodes and a matrix that is not symmetric.
C10_Witness ==
    /\ pc = "made"
    /\ len(coordinates) = 3
    /\ dist_matrix[0][1] # dist_matrix[1][0]
    /\ dist_matrix[1][2] # dist_matrix[2][1]
    /\ Cardinality(Edges(graph)) = 3

----
\* Properties of greedy_tsp.

\* The nodes not among the first k entries of the tour.
Unvisited(k) == DOMAIN graph.nodes \ { tsp_path[j] : j \in 0..(k - 1) }

\* Entry k of the tour is an unvisited node at minimum weight from entry k-1.
NearestAt(k) ==
    /\ tsp_path[k] \in Unvisited(k)
    /\ \A m \in Unvisited(k) :
          graph.adj[tsp_path[k - 1]][tsp_path[k]] <= graph.adj[tsp_path[k - 1]][m]

\* The graph with w(0,1) = 1, w(0,2) = 5, w(1,2) = 2, toured from 0.
ExampleTour ==
    /\ len(coordinates) = 3
    /\ first_index = 0
    /\ graph.adj[0][1] = 1 /\ graph.adj[0][2] = 5 /\ graph.adj[1][2] = 2

\* C11 as stated: every node of the tour after the first is an unvisited node
\* at minimum weight from the node before it, and the example graph is
\* toured 0, 1, 2.
C11_EveryNodeIsNearestUnvisited ==
    pc = "toured" =>
        /\ \A k \in DOMAIN tsp_path \ {0} : NearestAt(k)
        /\ ExampleTour => tsp_path = [k \in 0..2 |-> k]

\* C11 amended: each of the first n nodes of the tour after the first is an
\* unvisited node at minimum weight from the node before it, and the tour
\* then returns to its first node; the example graph is toured 0, 1, 2, 0.
C11_NearestUnvisitedThenReturn ==
    pc = "toured" =>
        LET n == len(coordinates)
        IN  /\ len(tsp_path) = n + 1
            /\ \A k \in 1..(n - 1) : NearestAt(k)
            /\ tsp_path[n] = tsp_path[0]
            /\ ExampleTour => tsp_path = [k \in 0..3 |-> k % 3]

C11_Witness ==
    /\ pc = "toured"
    /\ ExampleTour
    /\ tsp_path[1] = 1 /\ tsp_path[2] = 2

\* C12: when several unvisited nodes are at the minimum weight from the
\* current endpoint, the next node of the tour is the lowest of them.
C12_TieTakesLowestIndex ==
    pc = "toured" =>
        \A k \in 1..(len(coordinates) - 1) :
            \A m \in Unvisited(k) :
                graph.adj[tsp_path[k - 1]][m] = graph.adj[tsp_path[k - 1]][tsp_path[k]]
                    => tsp_path[k] <= m

\* From node 1, nodes 0 and 2 are equally near and nearer than nothing else.
C12_Witness ==
    /\ pc = "toured"
    /\ len(coordinates) = 3
    /\ first_index = 1
    /\ graph.adj[1][0] = graph.adj[1][2]
    /\ tsp_path[1] = 0 /\ tsp_path[2] = 2

====
